---- MODULE Spec2Model ----
(***************************************************************************)
(* Model of subapis/peripheral.py: the remote-call primitive of            *)
(* BasePeripheral, the TYPE_MAP registry with wrap / wrapRemote, and the   *)
(* channel subscription generator ModemMixin.receive.                      *)
(***************************************************************************)
EXTENDS Integers, Sequences, FiniteSets, TLC

(* ------------------------------------------------------------------ *)
(* Bounds of the model                                                *)
(* ------------------------------------------------------------------ *)
MaxEvents == 2
MaxRegs == 2
MaxDepth == 1

(* ------------------------------------------------------------------ *)
(* Values                                                             *)
(* ------------------------------------------------------------------ *)
None == <<"None">>

\* A Python str, as the sequence of its pieces; + is \o.
Str(s) == <<"str", s>>

\* ser.encode: a str becomes the bytes value sent to the host.
encode(s) == <<"bytes", s[2]>>

\* A bytes literal b'...'.
Bytes(s) == <<"bytes", s>>

\* A Python int passed as a call parameter.
PyInt(n) == <<"int", n>>

Sides == {"A", "B"}
Channels == {1, 2}

(* ------------------------------------------------------------------ *)
(* BasePeripheral                                                     *)
(* ------------------------------------------------------------------ *)
\* __init__(self, lua_method_expr, *prepend_params)
BasePeripheral(cls, lua_method_expr, prepend_params) ==
    [cls |-> cls, _lua_method_expr |-> lua_method_expr,
     _prepend_params |-> prepend_params]

\* _method with the method name ahead of the prepended parameters.
_methodNameFirst(self, name, params) ==
    [code |-> <<"return ">> \o self._lua_method_expr \o <<"(...)">>,
     args |-> <<encode(Str(name))>> \o self._prepend_params \o params]

\* _method(self, name, *params): the one eval_lua request it issues.
_method(self, name, params) ==
    [code |-> <<"return ">> \o self._lua_method_expr \o <<"(...)">>,
     args |-> self._prepend_params \o <<encode(Str(name))>> \o params]

\* ModemMixin._side
_side(self) == self._prepend_params[1]

\* m = 'peripheral.call' in wrap
PeripheralCall == <<"peripheral.", "call">>

(* ------------------------------------------------------------------ *)
(* The remote host's modem channels                                   *)
(* ------------------------------------------------------------------ *)
\* The host's reply to isOpen(channel) on the modem at a side.
HostIsOpen(st, side, channel) == st[<<side, channel>>]

\* The host's channel table after open(channel).
HostOpen(st, side, channel) == [st EXCEPT ![<<side, channel>>] = TRUE]

\* The host's channel table after close(channel).
HostClose(st, side, channel) == [st EXCEPT ![<<side, channel>>] = FALSE]

\* The host's channel table after closeAll().
HostCloseAll(st, side) ==
    [k \in DOMAIN st |-> IF k[1] = side THEN FALSE ELSE st[k]]

\* The host evaluates one request on peripheral.call: the side, the method
\* name and the method's parameters, in this order.
HostApply(st, q) ==
    LET side == q.args[1][2]
        name == q.args[2][2]
    IN  CASE name = "open" -> HostOpen(st, side, q.args[3][2])
          [] name = "close" -> HostClose(st, side, q.args[3][2])
          [] name = "closeAll" -> HostCloseAll(st, side)
          [] OTHER -> st

\* The boolean the host returns for an isOpen request.
HostReply(st, q) == HostIsOpen(st, q.args[1][2], q.args[3][2])

\* The host after a sequence of requests.
RECURSIVE HostRun(_, _)
HostRun(st, qs) ==
    IF qs = <<>> THEN st ELSE HostRun(HostApply(st, Head(qs)), Tail(qs))

(* ------------------------------------------------------------------ *)
(* Modem proxies and modem_message events                             *)
(* ------------------------------------------------------------------ *)
\* The modem proxies wrap() has returned, one per side.  A proxy holds
\* nothing but its handle, so a second proxy for a side is the same value.
ModemNames == {"mA", "mB"}
ModemSide(p) == IF p = "mA" THEN "A" ELSE "B"
Modem(p) ==
    BasePeripheral("CCWirelessModem", PeripheralCall,
                   <<encode(Str(ModemSide(p)))>>)

ReplyChannels == {7}
ShortOn == {<<"A", 1>>}
Distances == {10}

\* A modem_message event tuple: (side, channel, replyChannel, message,
\* distance); a short tuple lacks the distance.
Event(side, channel, reply, n, dist, full) ==
    IF full
    THEN <<Bytes(side), PyInt(channel), PyInt(reply), PyInt(n), PyInt(dist)>>
    ELSE <<Bytes(side), PyInt(channel), PyInt(reply), PyInt(n)>>

\* evt[2:]
Rest(evt) == SubSeq(evt, 3, Len(evt))

\* ModemMessage(*evt[2:]) succeeds only with exactly three fields.
ModemMessageOk(fields) == Len(fields) = 3

\* ModemMessage(reply_channel, content, distance)
ModemMessage(fields) ==
    [reply_channel |-> fields[1], content |-> fields[2], distance |-> fields[3]]

\* ModemMixin.isOpen / open / close / closeAll: the request each issues.
isOpen(self, channel) == _method(self, "isOpen", <<PyInt(channel)>>)
open(self, channel) == _method(self, "open", <<PyInt(channel)>>)
close(self, channel) == _method(self, "close", <<PyInt(channel)>>)
closeAll(self) == _method(self, "closeAll", <<>>)

(* ------------------------------------------------------------------ *)
(* The registry, wrap and wrapRemote                                  *)
(* ------------------------------------------------------------------ *)
\* What a call returns or raises when it is not a proxy.
NoneProxy == [cls |-> "None", _lua_method_expr |-> <<>>, _prepend_params |-> <<>>]
KeyError(k) == [cls |-> "KeyError", _lua_method_expr |-> <<k>>, _prepend_params |-> <<>>]
IsProxy(x) == x.cls \notin {"None", "KeyError"}

\* registerType as TYPE_MAP.setdefault(ptype, pcls): the first call wins.
registerTypeKeepFirst(tm, ptype, pcls) ==
    [k \in (DOMAIN tm) \cup {ptype} |-> IF k \in DOMAIN tm THEN tm[k] ELSE pcls]

\* registerType(ptype, pcls): TYPE_MAP[ptype] = pcls
registerType(tm, ptype, pcls) ==
    [k \in (DOMAIN tm) \cup {ptype} |-> IF k = ptype THEN pcls ELSE tm[k]]

\* The registerType calls the module makes when it is imported.
Builtins ==
    << <<"drive", "CCDrive">>, <<"monitor", "CCMonitor">>,
       <<"computer", "CCComputer">>, <<"turtle", "CCTurtle">>,
       <<"printer", "CCPrinter">>, <<"speaker", "CCSpeaker">>,
       <<"command", "CCCommandBlock">>, <<"workbench", "CCWorkbench">>,
       <<"webdisplays", "CCWebDisplay">>, <<"NBT_Observer", "CCNBTObserver">>,
       <<"3d_projector", "CC3dProjector">>, <<"manipulator", "CCManipulator">>,
       <<"minecraft:chest", "CCInventory">>, <<"minecraft:furnace", "CCInventory">>,
       <<"minecraft:barrel", "CCInventory">>, <<"minecraft:hopper", "CCInventory">>,
       <<"minecraft:dropper", "CCInventory">>, <<"minecraft:dispenser", "CCInventory">>,
       <<"minecraft:blast_furnace", "CCInventory">>, <<"minecraft:smoker", "CCInventory">>,
       <<"minecraft:shulker_box", "CCInventory">>,
       <<"minecraft:brewing_stand", "CCInventory">> >>

\* TYPE_MAP after a sequence of registerType calls, from TYPE_MAP = {}.
RECURSIVE RegisterAll(_, _)
RegisterAll(tm, regs) ==
    IF regs = <<>> THEN tm
    ELSE RegisterAll(registerType(tm, Head(regs)[1], Head(regs)[2]), Tail(regs))

\* method = eval_lua_method_factory('peripheral.'): the request of method(name, ...).
method(name, params) ==
    [code |-> <<"return ", "peripheral.", name, "(...)">>, args |-> params]

\* The lookup as TYPE_MAP.get(ptype): a missing key gives None.
ConstructOrNone(tm, k, expr, params) ==
    IF k \in DOMAIN tm THEN BasePeripheral(tm[k], expr, params) ELSE NoneProxy

\* TYPE_MAP[ptype](expr, *params): a missing key raises KeyError.
Construct(tm, k, expr, params) ==
    IF k \in DOMAIN tm THEN BasePeripheral(tm[k], expr, params) ELSE KeyError(k)

\* wrap without the modem case: every kind goes through TYPE_MAP.
wrapNoModemCase(tm, side, ptype, wireless) ==
    LET q1 == method("getType", <<encode(side)>>)
        enc == encode(side)
    IN  IF ptype = None
        THEN [ret |-> NoneProxy, calls |-> <<q1>>, lookups |-> <<>>]
        ELSE [ret |-> Construct(tm, ptype[2], PeripheralCall, <<enc>>),
              calls |-> <<q1>>, lookups |-> <<ptype[2]>>]

\* wrap(side), given the host's answers to getType and isWireless: the
\* result, the requests issued and the TYPE_MAP keys looked up.
wrap(tm, side, ptype, wireless) ==
    LET q1 == method("getType", <<encode(side)>>)
        enc == encode(side)
        q2 == method("call", <<enc, Bytes("isWireless")>>)
    IN  IF ptype = None
        THEN [ret |-> NoneProxy, calls |-> <<q1>>, lookups |-> <<>>]
        ELSE IF ptype = Str("modem")
        THEN [ret |-> IF wireless
                      THEN BasePeripheral("CCWirelessModem", PeripheralCall, <<enc>>)
                      ELSE BasePeripheral("CCWiredModem", PeripheralCall, <<enc>>),
              calls |-> <<q1, q2>>, lookups |-> <<>>]
        ELSE [ret |-> Construct(tm, ptype[2], PeripheralCall, <<enc>>),
              calls |-> <<q1>>, lookups |-> <<ptype[2]>>]

\* CCWiredModem.getTypeRemote: the request it issues.
getTypeRemote(self, peripheralName) ==
    _method(self, "getTypeRemote", <<encode(peripheralName)>>)

\* wrapRemote that leaves out the bridge's own prepended parameters.
wrapRemoteDropsPrepend(tm, self, peripheralName, ptype) ==
    LET q1 == getTypeRemote(self, peripheralName)
    IN  IF ptype = None
        THEN [ret |-> NoneProxy, calls |-> <<q1>>, lookups |-> <<>>]
        ELSE [ret |-> Construct(tm, ptype[2], self._lua_method_expr,
                                <<Bytes("callRemote"), encode(peripheralName)>>),
              calls |-> <<q1>>, lookups |-> <<ptype[2]>>]

\* wrapRemote with wrap's modem case: a far-side 'modem' is asked
\* isWireless and built without a registry lookup.
wrapRemoteModemCase(tm, self, peripheralName, ptype) ==
    LET q1 == getTypeRemote(self, peripheralName)
        pre == self._prepend_params
                  \o <<Bytes("callRemote"), encode(peripheralName)>>
        q2 == [code |-> <<"return ">> \o self._lua_method_expr \o <<"(...)">>,
               args |-> pre \o <<Bytes("isWireless")>>]
    IN  IF ptype = None
        THEN [ret |-> NoneProxy, calls |-> <<q1>>, lookups |-> <<>>]
        ELSE IF ptype = Str("modem")
        THEN [ret |-> BasePeripheral("CCWiredModem", self._lua_method_expr, pre),
              calls |-> <<q1, q2>>, lookups |-> <<>>]
        ELSE [ret |-> Construct(tm, ptype[2], self._lua_method_expr, pre),
              calls |-> <<q1>>, lookups |-> <<ptype[2]>>]

\* CCWiredModem.wrapRemote(peripheralName), given the host's answer.
wrapRemote(tm, self, peripheralName, ptype) ==
    LET q1 == getTypeRemote(self, peripheralName)
    IN  IF ptype = None
        THEN [ret |-> NoneProxy, calls |-> <<q1>>, lookups |-> <<>>]
        ELSE [ret |-> Construct(tm, ptype[2], self._lua_method_expr,
                                self._prepend_params
                                   \o <<Bytes("callRemote"), encode(peripheralName)>>),
              calls |-> <<q1>>, lookups |-> <<ptype[2]>>]

\* The inputs of the operations.
WrapSides == {Str("left"), Str("back")}
RemoteNames == {Str("furnace_0"), Str("modem_1")}
ReportedKinds == {None, Str("modem"), Str("minecraft:furnace"), Str("mystery")}
RegisterKinds == {"minecraft:furnace", "modem"}
RegisterClasses == {"CCInventory", "CCWiredModem"}

\* The typed methods called on a proxy of a class: name and parameters.
MethodCalls(cls) ==
    CASE cls \in {"CCWirelessModem", "CCWiredModem"} ->
             {[name |-> "isOpen", params |-> <<PyInt(5)>>]}
      [] cls = "CCInventory" -> {[name |-> "size", params |-> <<>>]}
      [] OTHER -> {}

(* ------------------------------------------------------------------ *)
(* State                                                              *)
(* ------------------------------------------------------------------ *)
VARIABLES
    chanOpen,   \* the host's open/closed status of every (side, channel)
    events,     \* the modem_message events in arrival order
    gen         \* the generators receive() has returned: where each is (pc),
                \* its proxy and channel, the position of its tap in the
                \* event stream while it runs (tap), the messages it has
                \* yielded (out), the requests it has issued (calls) and how
                \* it ended

VARIABLES
    TYPE_MAP,   \* the registry: kind identifier -> proxy class
    regLog,     \* the registerType calls made since the import, in order
    px,         \* the proxies the program holds: "p" from wrap, "r" from wrapRemote
    last        \* the last operation: its input, its requests, its result

modemVars == <<chanOpen, events, gen>>
regVars == <<TYPE_MAP, regLog, px, last>>
vars == <<chanOpen, events, gen, TYPE_MAP, regLog, px, last>>

\* The generators the program creates, in this order.
Gens == {1, 2}

\* A generator slot before receive() is called.
NoGen ==
    [pc |-> "unused", self |-> "mA", channel |-> 1, tap |-> 0,
     out |-> <<>>, calls |-> <<>>, end |-> "none"]

Slots == {"p", "r"}

\* Before any operation.
NoLast ==
    [op |-> "none", arg |-> Str(""), params |-> <<>>, pcls |-> "",
     ptype |-> None, wireless |-> FALSE, self |-> NoneProxy, ret |-> NoneProxy,
     calls |-> <<>>, lookups |-> <<>>]

Init ==
    /\ chanOpen = [k \in (Sides \X Channels) |-> FALSE]
    /\ events = <<>>
    /\ gen = [g \in Gens |-> NoGen]
    /\ TYPE_MAP = RegisterAll(<<>>, Builtins)
    /\ regLog = <<>>
    /\ px = [x \in Slots |-> NoneProxy]
    /\ last = NoLast

\* The side string of a generator's proxy, as the host knows it.
GenSide(r) == ModemSide(r.self)

\* The generator is inside the try block: suspended at the yield or
\* waiting for the next event.
Active(r) == r.pc \in {"waiting", "yielded"}

(* ------------------------------------------------------------------ *)
(* ModemMixin.receive                                                 *)
(* ------------------------------------------------------------------ *)
\* receive(channel): calling the generator function runs none of its body.
Receive(g, p, c) ==
    /\ gen[g].pc = "unused"
    /\ \A h \in Gens : h < g => gen[h].pc # "unused"
    /\ gen' = [gen EXCEPT ![g] = [NoGen EXCEPT !.pc = "created", !.self = p,
                                                !.channel = c]]
    /\ UNCHANGED <<chanOpen, events>>
    /\ UNCHANGED regVars

\* receive with open issued before the busy check.
StartGenOpenFirst(r, st, fail, now) ==
    LET q1 == isOpen(Modem(r.self), r.channel)
        q2 == open(Modem(r.self), r.channel)
    IN  IF fail = "isOpen"
        THEN [r EXCEPT !.pc = "done", !.end = "transport", !.calls = <<q1>>]
        ELSE IF HostReply(st, q1)
        THEN [r EXCEPT !.pc = "done", !.end = "busy", !.calls = <<q1, q2>>]
        ELSE IF fail = "open"
        THEN [r EXCEPT !.pc = "done", !.end = "transport", !.calls = <<q1, q2>>]
        ELSE [r EXCEPT !.pc = "waiting", !.calls = <<q1, q2>>, !.tap = now + 1]

\* receive without the busy check.
StartGenNoCheck(r, st, fail, now) ==
    LET q1 == isOpen(Modem(r.self), r.channel)
        q2 == open(Modem(r.self), r.channel)
    IN  IF fail = "isOpen"
        THEN [r EXCEPT !.pc = "done", !.end = "transport", !.calls = <<q1>>]
        ELSE IF fail = "open"
        THEN [r EXCEPT !.pc = "done", !.end = "transport", !.calls = <<q1, q2>>]
        ELSE [r EXCEPT !.pc = "waiting", !.calls = <<q1, q2>>, !.tap = now + 1]

\* receive with the busy check inside the try block: the finally clause
\* closes the channel the busy generator never opened.
StartGenBusyInsideTry(r, st, fail, now) ==
    LET q1 == isOpen(Modem(r.self), r.channel)
        q2 == open(Modem(r.self), r.channel)
        q3 == close(Modem(r.self), r.channel)
    IN  IF fail = "isOpen"
        THEN [r EXCEPT !.pc = "done", !.end = "transport", !.calls = <<q1>>]
        ELSE IF HostReply(st, q1)
        THEN [r EXCEPT !.pc = "done", !.end = "busy", !.calls = <<q1, q3>>]
        ELSE IF fail = "open"
        THEN [r EXCEPT !.pc = "done", !.end = "transport", !.calls = <<q1, q2>>]
        ELSE [r EXCEPT !.pc = "waiting", !.calls = <<q1, q2>>, !.tap = now + 1]

\* The generator after its first next(): the busy check, then open, then
\* the tap on the event stream.  fail names the remote call that raises.
StartGen(r, st, fail, now) ==
    LET q1 == isOpen(Modem(r.self), r.channel)
        q2 == open(Modem(r.self), r.channel)
    IN  IF fail = "isOpen"
        THEN [r EXCEPT !.pc = "done", !.end = "transport", !.calls = <<q1>>]
        ELSE IF HostReply(st, q1)
        THEN [r EXCEPT !.pc = "done", !.end = "busy", !.calls = <<q1>>]
        ELSE IF fail = "open"
        THEN [r EXCEPT !.pc = "done", !.end = "transport", !.calls = <<q1, q2>>]
        ELSE [r EXCEPT !.pc = "waiting", !.calls = <<q1, q2>>, !.tap = now + 1]

\* The requests a generator has issued in moving from r to r2.
NewCalls(r, r2) == SubSeq(r2.calls, Len(r.calls) + 1, Len(r2.calls))

\* The host's channels after that move; a request that raised did nothing.
HostAfter(st, r, r2) ==
    IF r2.end = "transport" THEN st ELSE HostRun(st, NewCalls(r, r2))

Start(g) ==
    /\ gen[g].pc = "created"
    /\ \E fail \in {"none", "isOpen", "open"} :
          LET r2 == StartGen(gen[g], chanOpen, fail, Len(events))
          IN  /\ gen' = [gen EXCEPT ![g] = r2]
              /\ chanOpen' = HostAfter(chanOpen, gen[g], r2)
    /\ UNCHANGED events
    /\ UNCHANGED regVars

\* The loop without try/finally: close only after the loop has run out.
FinallyOnExhaustOnly(r, how) ==
    [r EXCEPT !.pc = "done", !.end = how,
              !.calls = IF how = "exhausted"
                        THEN @ \o <<close(Modem(r.self), r.channel)>>
                        ELSE @]

\* The loop without any cleanup: the channel is left open at the end.
FinallyNoClose(r, how) ==
    [r EXCEPT !.pc = "done", !.end = how, !.tap = 0]

\* The cleanup as closeAll(): every channel of the side is closed.
FinallyCloseAll(r, how) ==
    [r EXCEPT !.pc = "done", !.end = how, !.tap = 0,
              !.calls = @ \o <<closeAll(Modem(r.self))>>]

\* finally: self.close(channel)
Finally(r, how) ==
    [r EXCEPT !.pc = "done", !.end = how, !.tap = 0,
              !.calls = @ \o <<close(Modem(r.self), r.channel)>>]

\* The loop without the side filter.
LoopNoSide(r, evt) ==
    IF evt[2] # PyInt(r.channel)
    THEN [r EXCEPT !.tap = @ + 1]
    ELSE IF ModemMessageOk(Rest(evt))
    THEN [r EXCEPT !.tap = @ + 1, !.pc = "yielded",
                   !.out = Append(@, ModemMessage(Rest(evt)))]
    ELSE Finally(r, "error")

\* The loop with the message built outside the try block.
LoopErrorEscapes(r, evt) ==
    IF evt[1] # _side(Modem(r.self))
    THEN [r EXCEPT !.tap = @ + 1]
    ELSE IF evt[2] # PyInt(r.channel)
    THEN [r EXCEPT !.tap = @ + 1]
    ELSE IF ModemMessageOk(Rest(evt))
    THEN [r EXCEPT !.tap = @ + 1, !.pc = "yielded",
                   !.out = Append(@, ModemMessage(Rest(evt)))]
    ELSE [r EXCEPT !.tap = 0, !.pc = "done", !.end = "error"]

\* The loop with the close call inside it, after each message.
LoopClosesAfterMessage(r, evt) ==
    IF evt[1] # _side(Modem(r.self))
    THEN [r EXCEPT !.tap = @ + 1]
    ELSE IF evt[2] # PyInt(r.channel)
    THEN [r EXCEPT !.tap = @ + 1]
    ELSE IF ModemMessageOk(Rest(evt))
    THEN [r EXCEPT !.tap = @ + 1, !.pc = "yielded",
                   !.out = Append(@, ModemMessage(Rest(evt))),
                   !.calls = @ \o <<close(Modem(r.self), r.channel)>>]
    ELSE Finally(r, "error")

\* One turn of the for loop on the next captured event.
Loop(r, evt) ==
    IF evt[1] # _side(Modem(r.self))
    THEN [r EXCEPT !.tap = @ + 1]
    ELSE IF evt[2] # PyInt(r.channel)
    THEN [r EXCEPT !.tap = @ + 1]
    ELSE IF ModemMessageOk(Rest(evt))
    THEN [r EXCEPT !.tap = @ + 1, !.pc = "yielded",
                   !.out = Append(@, ModemMessage(Rest(evt)))]
    ELSE Finally(r, "error")

\* The loop on a stream with a single reader position: an event taken by
\* one generator is gone for the others waiting at it.
TakeFromSharedQueue(g) ==
    /\ gen[g].pc = "waiting"
    /\ gen[g].tap <= Len(events)
    /\ LET r2 == Loop(gen[g], events[gen[g].tap])
       IN  /\ gen' = [h \in Gens |->
                        IF h = g THEN r2
                        ELSE IF Active(gen[h]) /\ gen[h].tap = gen[g].tap
                        THEN [gen[h] EXCEPT !.tap = @ + 1]
                        ELSE gen[h]]
           /\ chanOpen' = HostAfter(chanOpen, gen[g], r2)
    /\ UNCHANGED events
    /\ UNCHANGED regVars

Take(g) ==
    /\ gen[g].pc = "waiting"
    /\ gen[g].tap <= Len(events)
    /\ LET r2 == Loop(gen[g], events[gen[g].tap])
       IN  /\ gen' = [gen EXCEPT ![g] = r2]
           /\ chanOpen' = HostAfter(chanOpen, gen[g], r2)
    /\ UNCHANGED events
    /\ UNCHANGED regVars

\* The consumer asks for the next message.
Resume(g) ==
    /\ gen[g].pc = "yielded"
    /\ gen' = [gen EXCEPT ![g].pc = "waiting"]
    /\ UNCHANGED <<chanOpen, events>>
    /\ UNCHANGED regVars

\* The consumer abandons the generator: at the yield, or while it waits.
Abandon(g) ==
    /\ gen[g].pc \in {"waiting", "yielded"}
    /\ LET r2 == Finally(gen[g], "abandoned")
       IN  /\ gen' = [gen EXCEPT ![g] = r2]
           /\ chanOpen' = HostAfter(chanOpen, gen[g], r2)
    /\ UNCHANGED events
    /\ UNCHANGED regVars

\* captureEvent ends: the for loop is exhausted.
Exhaust(g) ==
    /\ gen[g].pc = "waiting"
    /\ LET r2 == Finally(gen[g], "exhausted")
       IN  /\ gen' = [gen EXCEPT ![g] = r2]
           /\ chanOpen' = HostAfter(chanOpen, gen[g], r2)
    /\ UNCHANGED events
    /\ UNCHANGED regVars

\* Dropping a generator that never ran, as if its finally clause ran.
DiscardRunsFinally(g) ==
    /\ gen[g].pc = "created"
    /\ LET r2 == Finally(gen[g], "discarded")
       IN  /\ gen' = [gen EXCEPT ![g] = r2]
           /\ chanOpen' = HostAfter(chanOpen, gen[g], r2)
    /\ UNCHANGED events
    /\ UNCHANGED regVars

\* A generator that is dropped before its first next().
Discard(g) ==
    /\ gen[g].pc = "created"
    /\ gen' = [gen EXCEPT ![g].pc = "done", ![g].end = "discarded"]
    /\ UNCHANGED <<chanOpen, events>>
    /\ UNCHANGED regVars

\* A modem_message event arrives: any side and channel; the short tuples
\* are drawn for the channels in ShortOn.
Arrive ==
    /\ Len(events) < MaxEvents
    /\ \E side \in Sides, c \in Channels, rc \in ReplyChannels,
          d \in Distances, full \in BOOLEAN :
          /\ full \/ <<side, c>> \in ShortOn
          /\ events' = Append(events, Event(side, c, rc, Len(events) + 1, d, full))
    /\ UNCHANGED <<chanOpen, gen>>
    /\ UNCHANGED regVars

\* close(channel) called directly on a modem proxy, on an open channel.
DirectClose(p, c) ==
    /\ HostIsOpen(chanOpen, ModemSide(p), c)
    /\ chanOpen' = HostApply(chanOpen, close(Modem(p), c))
    /\ UNCHANGED <<events, gen>>
    /\ UNCHANGED regVars

Next ==
    \/ \E g \in Gens, p \in ModemNames, c \in Channels : Receive(g, p, c)
    \/ \E g \in Gens : Start(g)
    \/ \E g \in Gens : Take(g)
    \/ \E g \in Gens : Resume(g)
    \/ \E g \in Gens : Abandon(g)
    \/ \E g \in Gens : Exhaust(g)
    \/ \E g \in Gens : Discard(g)
    \/ Arrive
    \/ \E p \in ModemNames, c \in Channels : DirectClose(p, c)

Spec == Init /\ [][Next]_vars

(* ------------------------------------------------------------------ *)
(* Operations on the registry and the proxies                         *)
(* ------------------------------------------------------------------ *)
\* The proxies held after an operation returned x into slot.
Hold(slot, x) == IF IsProxy(x) THEN [px EXCEPT ![slot] = x] ELSE px

\* p = wrap(side)
Wrap ==
    /\ \E side \in WrapSides, ptype \in ReportedKinds, wireless \in BOOLEAN :
          /\ wireless => ptype = Str("modem")
          /\ LET w == wrap(TYPE_MAP, side, ptype, wireless)
             IN  /\ last' = [NoLast EXCEPT !.op = "wrap", !.arg = side,
                                !.ptype = ptype, !.wireless = wireless,
                                !.ret = w.ret, !.calls = w.calls,
                                !.lookups = w.lookups]
                 /\ px' = Hold("p", w.ret)
    /\ UNCHANGED <<TYPE_MAP, regLog>>
    /\ UNCHANGED modemVars

\* wrapRemote that appends the forwarding marker and the name to the
\* bridge's own _prepend_params before it constructs the result.
WrapRemoteInPlace(from) ==
    /\ px[from].cls = "CCWiredModem"
    /\ Len(px[from]._prepend_params) < 1 + 2 * MaxDepth
    /\ \E name \in RemoteNames, ptype \in ReportedKinds :
          LET w == wrapRemote(TYPE_MAP, px[from], name, ptype)
              self2 == IF ptype = None THEN px[from]
                       ELSE [px[from] EXCEPT !._prepend_params =
                                @ \o <<Bytes("callRemote"), encode(name)>>]
              px2 == [px EXCEPT ![from] = self2]
          IN  /\ last' = [NoLast EXCEPT !.op = "wrapRemote", !.arg = name,
                             !.ptype = ptype, !.self = px[from],
                             !.ret = w.ret, !.calls = w.calls,
                             !.lookups = w.lookups]
              /\ px' = IF IsProxy(w.ret) THEN [px2 EXCEPT !["r"] = w.ret] ELSE px2
    /\ UNCHANGED <<TYPE_MAP, regLog>>
    /\ UNCHANGED modemVars

\* r = px[from].wrapRemote(peripheralName), on a wired modem proxy.
WrapRemote(from) ==
    /\ px[from].cls = "CCWiredModem"
    /\ Len(px[from]._prepend_params) < 1 + 2 * MaxDepth
    /\ \E name \in RemoteNames, ptype \in ReportedKinds :
          LET w == wrapRemote(TYPE_MAP, px[from], name, ptype)
          IN  /\ last' = [NoLast EXCEPT !.op = "wrapRemote", !.arg = name,
                             !.ptype = ptype, !.self = px[from],
                             !.ret = w.ret, !.calls = w.calls,
                             !.lookups = w.lookups]
              /\ px' = Hold("r", w.ret)
    /\ UNCHANGED <<TYPE_MAP, regLog>>
    /\ UNCHANGED modemVars

\* px[slot].<name>(*params): a typed method, one _method call.
Call(slot) ==
    /\ IsProxy(px[slot])
    /\ \E m \in MethodCalls(px[slot].cls) :
          last' = [NoLast EXCEPT !.op = "call", !.arg = Str(m.name),
                      !.params = m.params, !.self = px[slot],
                      !.calls = <<_method(px[slot], m.name, m.params)>>]
    /\ UNCHANGED <<TYPE_MAP, regLog, px>>
    /\ UNCHANGED modemVars

\* registerType(ptype, pcls)
RegisterType(ptype, pcls) ==
    /\ Len(regLog) < MaxRegs
    /\ TYPE_MAP' = registerType(TYPE_MAP, ptype, pcls)
    /\ regLog' = Append(regLog, <<ptype, pcls>>)
    /\ last' = [NoLast EXCEPT !.op = "registerType", !.arg = Str(ptype),
                   !.pcls = pcls]
    /\ UNCHANGED px
    /\ UNCHANGED modemVars

NextPeripheral ==
    \/ Wrap
    \/ \E from \in Slots : WrapRemote(from)
    \/ \E slot \in Slots : Call(slot)
    \/ \E ptype \in RegisterKinds, pcls \in RegisterClasses : RegisterType(ptype, pcls)

SpecPeripheral == Init /\ [][NextPeripheral]_vars

(* ------------------------------------------------------------------ *)
(* Properties of receive                                              *)
(* ------------------------------------------------------------------ *)
\* The generator's open call returned: it is past the reservation.
Reserved(r) == Active(r) \/ r.end \in {"abandoned", "exhausted", "error"}

SameChannel(r, q) == GenSide(r) = GenSide(q) /\ r.channel = q.channel

\* How many of a generator's requests from position i on are close(channel).
RECURSIVE CloseCalls(_, _)
CloseCalls(r, i) ==
    IF i > Len(r.calls) THEN 0
    ELSE (IF r.calls[i] = close(Modem(r.self), r.channel) THEN 1 ELSE 0)
         + CloseCalls(r, i + 1)

\* The events of a window that a subscription of r keeps, as messages.
RECURSIVE Kept(_, _, _)
Kept(r, i, j) ==
    IF i > j THEN <<>>
    ELSE IF /\ events[i][1] = Bytes(GenSide(r))
            /\ events[i][2] = PyInt(r.channel)
            /\ Len(events[i]) = 5
         THEN <<[reply_channel |-> events[i][3], content |-> events[i][4],
                 distance |-> events[i][5]]>> \o Kept(r, i + 1, j)
         ELSE Kept(r, i + 1, j)

\* C1: a subscription that was abandoned (after 0, 1 or N messages) has
\* issued exactly one close(channel) call since its open call returned, and
\* none before the abandonment.
C1_OneCloseOnAbandon ==
    \A g \in Gens :
        /\ Active(gen[g]) =>
              /\ gen[g].calls[2] = open(Modem(gen[g].self), gen[g].channel)
              /\ CloseCalls(gen[g], 3) = 0
        /\ gen[g].end = "abandoned" =>
              /\ gen[g].calls[2] = open(Modem(gen[g].self), gen[g].channel)
              /\ CloseCalls(gen[g], 3) = 1
              /\ Len(gen[g].calls) = 3

\* One subscription abandoned before any message, another after two.
C1_Witness ==
    \E g, h \in Gens :
        /\ gen[g].end = "abandoned" /\ Len(gen[g].out) = 0
        /\ gen[h].end = "abandoned" /\ Len(gen[h].out) = MaxEvents

\* The step is the first next() of generator g.
Started(g) == gen[g].pc = "created" /\ gen'[g].pc # "created" /\ gen'[g].end # "discarded"

\* C2: when the isOpen query reports the channel open, the first next() of
\* receive raises 'Channel is busy', has issued the isOpen request and no
\* other (no open), and leaves the host's channel table as it was.
C2_BusyBeforeOpen ==
    [][\A g \in Gens :
          (/\ Started(g)
           /\ HostReply(chanOpen, isOpen(Modem(gen[g].self), gen[g].channel))
           /\ gen'[g].end # "transport")
          => /\ gen'[g].pc = "done"
             /\ gen'[g].end = "busy"
             /\ gen'[g].calls = <<isOpen(Modem(gen[g].self), gen[g].channel)>>
             /\ gen'[g].out = <<>>
             /\ chanOpen' = chanOpen]_vars

\* A generator ended busy on a channel that is open, as before.
C2_Witness ==
    \E g \in Gens :
        /\ gen[g].end = "busy"
        /\ HostIsOpen(chanOpen, GenSide(gen[g]), gen[g].channel)

\* C3: the messages an active subscription has yielded are exactly the events of
\* its own side and channel among the events it has taken from the stream,
\* in arrival order, each as (reply channel, payload, distance); the events
\* taken are a run of consecutive arrivals ending at its tap.
C3_FilteredInOrder ==
    \A g \in Gens :
        Active(gen[g]) =>
            /\ gen[g].tap \in 1..(Len(events) + 1)
            /\ \E f \in 1..gen[g].tap : gen[g].out = Kept(gen[g], f, gen[g].tap - 1)
            /\ gen[g].pc = "yielded" =>
                  /\ gen[g].out # <<>>
                  /\ <<gen[g].out[Len(gen[g].out)]>> =
                        Kept(gen[g], gen[g].tap - 1, gen[g].tap - 1)

\* A subscription on (A, 1) took an event of the other side or channel and
\* then one of its own, and yielded only the second.
C3_Witness ==
    \E g \in Gens :
        /\ gen[g].pc = "yielded" /\ gen[g].self = "mA" /\ gen[g].channel = 1
        /\ Len(events) = 2 /\ gen[g].tap = 3
        /\ events[1][1] = Bytes("B") \/ events[1][2] = PyInt(2)
        /\ Len(gen[g].out) = 1 /\ gen[g].out[1].content = PyInt(2)

\* C4: a subscription whose open call returned has issued no close while
\* it is active and exactly one close, as its last request, once it has
\* ended: by exhaustion, by abandonment or by an error in delivering.
C4_CloseOnEveryEnd ==
    \A g \in Gens :
        Reserved(gen[g]) =>
            /\ gen[g].calls[1] = isOpen(Modem(gen[g].self), gen[g].channel)
            /\ gen[g].calls[2] = open(Modem(gen[g].self), gen[g].channel)
            /\ Active(gen[g]) => Len(gen[g].calls) = 2
            /\ gen[g].pc = "done" =>
                  /\ Len(gen[g].calls) = 3
                  /\ gen[g].calls[3] = close(Modem(gen[g].self), gen[g].channel)

\* One subscription ended by an error in ModemMessage(*evt[2:]), one by
\* exhaustion of the stream.
C4_Witness ==
    \E g, h \in Gens : gen[g].end = "error" /\ gen[h].end = "exhausted"

\* C5 as stated: two subscriptions on one side and channel are never active
\* together.
C5_NeverTwoActive ==
    \A g, h \in Gens :
        (g # h /\ SameChannel(gen[g], gen[h])) => ~(Active(gen[g]) /\ Active(gen[h]))

\* C5 amended: a subscription started while another on the same side and
\* channel is active, and for which isOpen reports the channel open, fails
\* busy without a message; and a subscription becomes active only with its
\* channel open on the host.
C5_BusyWhileHostOpen ==
    [][\A g \in Gens :
          /\ (/\ Started(g)
              /\ \E h \in Gens : h # g /\ Active(gen[h]) /\ SameChannel(gen[g], gen[h])
              /\ HostIsOpen(chanOpen, GenSide(gen[g]), gen[g].channel)
              /\ gen'[g].end # "transport")
             => (gen'[g].end = "busy" /\ gen'[g].out = <<>> /\ ~Active(gen'[g]))
          /\ (Started(g) /\ Active(gen'[g]))
             => /\ ~HostIsOpen(chanOpen, GenSide(gen[g]), gen[g].channel)
                /\ HostIsOpen(chanOpen', GenSide(gen[g]), gen[g].channel)]_vars

\* One subscription is active and a second one on its side and channel has
\* failed busy.
C5_Witness ==
    \E g, h \in Gens :
        /\ g # h /\ SameChannel(gen[g], gen[h])
        /\ Active(gen[h]) /\ gen[g].end = "busy"

(* ------------------------------------------------------------------ *)
(* Properties of the registry, wrap and wrapRemote                    *)
(* ------------------------------------------------------------------ *)
\* The code string of a request on target expression t.
CodeOn(t) == <<"return ">> \o t \o <<"(...)">>

\* Every typed method call of the model.
AllMethodCalls ==
    MethodCalls("CCWiredModem") \cup MethodCalls("CCInventory")

\* C6: wrapRemote(N) on a bridge proxy (T, P) returns a proxy with target T
\* and prepended arguments P ++ ['callRemote', N]; each call of m(a) on it
\* is the one request on T with arguments P ++ ['callRemote', N, m] ++ a.
C6_ForwardingComposition ==
    /\ (last.op = "wrapRemote" /\ IsProxy(last.ret)) =>
          /\ last.ret._lua_method_expr = last.self._lua_method_expr
          /\ last.ret._prepend_params =
                last.self._prepend_params
                   \o << <<"bytes", "callRemote">>, <<"bytes", last.arg[2]>> >>
          /\ \A m \in AllMethodCalls :
                _method(last.ret, m.name, m.params) =
                   [code |-> CodeOn(last.self._lua_method_expr),
                    args |-> last.self._prepend_params
                                \o << <<"bytes", "callRemote">>,
                                      <<"bytes", last.arg[2]>>,
                                      <<"bytes", m.name>> >>
                                \o m.params]
    /\ (/\ last.op = "call"
        /\ Len(last.self._prepend_params) = 3
        /\ last.self._prepend_params[2] = <<"bytes", "callRemote">>) =>
          last.calls =
             << [code |-> CodeOn(last.self._lua_method_expr),
                 args |-> << last.self._prepend_params[1],
                             <<"bytes", "callRemote">>,
                             last.self._prepend_params[3],
                             <<"bytes", last.arg[2]>> >> \o last.params] >>

\* size() on the proxy wrapRemote('furnace_0') returned from the wired
\* modem on side 'back'.
C6_Witness ==
    /\ last.op = "call" /\ last.arg = Str("size")
    /\ last.self.cls = "CCInventory"
    /\ last.calls =
          << [code |-> <<"return ", "peripheral.", "call", "(...)">>,
              args |-> << <<"bytes", "back">>, <<"bytes", "callRemote">>,
                          <<"bytes", "furnace_0">>, <<"bytes", "size">> >>] >>

\* The step looked ptype up in TYPE_MAP (wrap does not for 'modem').
ViaRegistry ==
    /\ last.op \in {"wrap", "wrapRemote"}
    /\ last.ptype # None
    /\ ~(last.op = "wrap" /\ last.ptype = Str("modem"))

\* C7: wrap and wrapRemote return None, with the kind query as their only
\* request and no registry lookup, exactly when no kind is reported; for a
\* reported kind without a registered class they raise, and return neither
\* None nor a proxy.
C7_AbsentOrUnknown ==
    last.op \in {"wrap", "wrapRemote"} =>
        /\ last.ptype = None =>
              (last.ret = NoneProxy /\ last.lookups = <<>> /\ Len(last.calls) = 1)
        /\ last.ret = NoneProxy => last.ptype = None
        /\ (ViaRegistry /\ last.ptype[2] \notin DOMAIN TYPE_MAP) =>
              last.ret = KeyError(last.ptype[2])
        /\ last.ret.cls = "KeyError" =>
              (ViaRegistry /\ last.ptype[2] \notin DOMAIN TYPE_MAP)

\* wrapRemote met a far-side device of a kind nobody registered.
C7_Witness ==
    /\ last.op = "wrapRemote" /\ last.ptype = Str("mystery")
    /\ last.ret.cls = "KeyError"

\* C8: for kind 'modem' wrap looks nothing up in TYPE_MAP, issues getType
\* and then the one isWireless call for the side, and returns the wireless
\* proxy on true and the wired one on false; isOpen(5) on the proxy of side
\* 'left' is the one request (left, isOpen, 5) on peripheral.call.
C8_ModemSpecialCase ==
    /\ (last.op = "wrap" /\ last.ptype = Str("modem")) =>
          /\ last.lookups = <<>>
          /\ last.calls =
                << [code |-> <<"return ", "peripheral.", "getType", "(...)">>,
                    args |-> << <<"bytes", last.arg[2]>> >>],
                   [code |-> <<"return ", "peripheral.", "call", "(...)">>,
                    args |-> << <<"bytes", last.arg[2]>>,
                                <<"bytes", "isWireless">> >>] >>
          /\ last.ret =
                [cls |-> IF last.wireless THEN "CCWirelessModem" ELSE "CCWiredModem",
                 _lua_method_expr |-> <<"peripheral.", "call">>,
                 _prepend_params |-> << <<"bytes", last.arg[2]>> >>]
    /\ (/\ last.op = "call" /\ last.arg = Str("isOpen")
        /\ last.self.cls \in {"CCWirelessModem", "CCWiredModem"}
        /\ last.self._prepend_params = << <<"bytes", "left">> >>) =>
          last.calls =
             << [code |-> <<"return ", "peripheral.", "call", "(...)">>,
                 args |-> << <<"bytes", "left">>, <<"bytes", "isOpen">>,
                             <<"int", 5>> >>] >>

\* isOpen(5) on the wireless proxy wrap('left') returned, with a class
\* registered under 'modem'.
C8_Witness ==
    /\ last.op = "call" /\ last.arg = Str("isOpen") /\ last.params = <<PyInt(5)>>
    /\ last.self = px["p"]
    /\ px["p"].cls = "CCWirelessModem"
    /\ px["p"]._prepend_params = <<Bytes("left")>>
    /\ "modem" \in DOMAIN TYPE_MAP

\* The class of the most recent registerType call for kind k in a log.
RECURSIVE Latest(_, _, _)
Latest(log, k, n) ==
    IF n = 0 THEN "" ELSE IF log[n][1] = k THEN log[n][2] ELSE Latest(log, k, n - 1)

\* C9: TYPE_MAP has one class per registered kind, that of the most recent
\* registerType call for the kind, and wrap / wrapRemote construct that
\* class; a call repeating the one before it leaves TYPE_MAP as it was, and
\* a call for one kind leaves the entries of the other kinds as they were.
C9_LastRegistrationWins ==
    LET all == Builtins \o regLog
        n == Len(all)
        before == RegisterAll(<<>>, SubSeq(all, 1, n - 1))
    IN  /\ (ViaRegistry /\ IsProxy(last.ret)) =>
              last.ret.cls = Latest(all, last.ptype[2], n)
        /\ last.op \in {"none", "registerType"} =>
              /\ DOMAIN TYPE_MAP = {all[i][1] : i \in 1..n}
              /\ \A k \in DOMAIN TYPE_MAP : TYPE_MAP[k] = Latest(all, k, n)
              /\ all[n] = all[n - 1] => TYPE_MAP = before
              /\ \A k \in (DOMAIN before) \ {all[n][1]} : TYPE_MAP[k] = before[k]

\* 'modem' was registered twice with different classes and wrapRemote then
\* resolved a far-side modem.
C9_Witness ==
    /\ regLog = << <<"modem", "CCInventory">>, <<"modem", "CCWiredModem">> >>
    /\ last.op = "wrapRemote" /\ last.lookups = <<"modem">>
    /\ last.ret.cls = "CCWiredModem"

\* Handles (target expression, prepended arguments) to resolve kinds with.
Handles ==
    {[t |-> PeripheralCall, p |-> <<Bytes("left")>>],
     [t |-> PeripheralCall,
      p |-> <<Bytes("back"), Bytes("callRemote"), Bytes("furnace_0")>>]}

\* C10: the proxy TYPE_MAP[K](T, *P) of every registered kind K keeps T and
\* P, and each call of a method m(a) on a proxy is exactly one request, on
\* the proxy's target, with arguments P, then m, then a.
C10_CallsUseHandle ==
    /\ last.op \in {"none", "registerType"} =>
       \A k \in DOMAIN TYPE_MAP : \A h \in Handles :
          LET x == Construct(TYPE_MAP, k, h.t, h.p)
          IN  /\ x._lua_method_expr = h.t
              /\ x._prepend_params = h.p
              /\ \A m \in AllMethodCalls :
                    _method(x, m.name, m.params) =
                       [code |-> CodeOn(h.t),
                        args |-> h.p \o << <<"bytes", m.name>> >> \o m.params]
    /\ (last.op = "wrap" /\ ViaRegistry /\ IsProxy(last.ret)) =>
          last.ret = [cls |-> TYPE_MAP[last.ptype[2]],
                      _lua_method_expr |-> <<"peripheral.", "call">>,
                      _prepend_params |-> << <<"bytes", last.arg[2]>> >>]
    /\ last.op = "call" =>
          /\ Len(last.calls) = 1
          /\ last.calls[1] =
                [code |-> CodeOn(last.self._lua_method_expr),
                 args |-> last.self._prepend_params
                             \o << <<"bytes", last.arg[2]>> >> \o last.params]

\* size() on the CCInventory proxy wrap('left') resolved for a furnace.
C10_Witness ==
    /\ last.op = "call" /\ last.arg = Str("size")
    /\ last.self = [cls |-> "CCInventory",
                    _lua_method_expr |-> <<"peripheral.", "call">>,
                    _prepend_params |-> << <<"bytes", "left">> >>]
    /\ last.calls =
          << [code |-> <<"return ", "peripheral.", "call", "(...)">>,
              args |-> << <<"bytes", "left">>, <<"bytes", "size">> >>] >>

(* ------------------------------------------------------------------ *)
(* Further properties of receive                                      *)
(* ------------------------------------------------------------------ *)
\* The generator ended after its open call returned: it has released.
Released(r) == r.end \in {"abandoned", "exhausted", "error"}

\* C11: a generator that has ended never changes again (no message, no
\* request); a generator that has yielded a message issued isOpen and then
\* open first; and the first next() of a generator on the side and channel
\* of a released one, with no other subscription active there, passes the
\* busy check: it issues isOpen, then open, and becomes active.
C11_NotRestartable ==
    [][\A g \in Gens :
          /\ gen[g].pc = "done" => gen'[g] = gen[g]
          /\ gen'[g].out # <<>> =>
                /\ Len(gen'[g].calls) >= 2
                /\ gen'[g].calls[1] = isOpen(Modem(gen'[g].self), gen'[g].channel)
                /\ gen'[g].calls[2] = open(Modem(gen'[g].self), gen'[g].channel)
          /\ Started(g) =>
                /\ gen'[g].calls # <<>>
                /\ gen'[g].calls[1] = isOpen(Modem(gen[g].self), gen[g].channel)
                /\ gen'[g].out = <<>>
          /\ (/\ Started(g)
              /\ gen'[g].end # "transport"
              /\ \E h \in Gens : h # g /\ Released(gen[h]) /\ SameChannel(gen[g], gen[h])
              /\ \A k \in Gens : (k # g /\ SameChannel(gen[g], gen[k])) => ~Active(gen[k]))
             => /\ Active(gen'[g])
                /\ gen'[g].calls = <<isOpen(Modem(gen[g].self), gen[g].channel),
                                     open(Modem(gen[g].self), gen[g].channel)>>
                /\ HostIsOpen(chanOpen', GenSide(gen[g]), gen[g].channel)]_vars

\* A subscription was abandoned after a message, and a later one on its
\* side and channel is delivering a message of its own.
C11_Witness ==
    \E g, h \in Gens :
        /\ g # h /\ SameChannel(gen[g], gen[h])
        /\ gen[h].end = "abandoned" /\ gen[h].out # <<>>
        /\ gen[g].pc = "yielded"
        /\ gen[g].out # <<>> /\ gen[g].out # gen[h].out

\* The event is one that a generator on r's side and channel keeps.
Matches(r, evt) == evt[1] = Bytes(GenSide(r)) /\ evt[2] = PyInt(r.channel)

\* The step is one turn of g's loop on the event at its tap.
Took(g) ==
    /\ gen[g].pc = "waiting"
    /\ gen'[g] # gen[g]
    /\ gen'[g].end \notin {"abandoned", "exhausted"}

Lifecycle(r) ==
    <<isOpen(Modem(r.self), r.channel), open(Modem(r.self), r.channel),
      close(Modem(r.self), r.channel)>>

\* The method names of Lifecycle.
LifecycleNames == <<"isOpen", "open", "close">>

\* C14: the requests a generator has issued are a prefix of isOpen(channel),
\* open(channel), close(channel); a message is yielded only by a generator
\* that has issued isOpen and open and not close, and the step issues no
\* request; the tap starts behind every event that arrived before the open
\* call returned; and a generator that is not running yields nothing.
C14_DeliveryBetweenOpenAndClose ==
    [][\A g \in Gens :
          gen'[g] # gen[g] =>
             /\ Len(gen'[g].calls) <= 3
             /\ \A i \in 1..Len(gen'[g].calls) :
                   /\ gen'[g].calls[i].args[2] = <<"bytes", LifecycleNames[i]>>
                   /\ gen'[g].calls[i].args[3] = <<"int", gen'[g].channel>>
             /\ gen'[g].out # gen[g].out =>
                   /\ Len(gen[g].calls) = 2
                   /\ gen'[g].calls = gen[g].calls
                   /\ gen[g].tap \in 1..Len(events)
                   /\ gen'[g].out = Append(gen[g].out,
                                           ModemMessage(Rest(events[gen[g].tap])))
             /\ (Started(g) /\ Active(gen'[g])) =>
                   /\ gen'[g].tap = Len(events) + 1
                   /\ gen'[g].out = <<>>
             /\ ~Active(gen[g]) => gen'[g].out = gen[g].out
             /\ ~Active(gen'[g]) => gen'[g].out = gen[g].out]_vars

\* An abandoned subscription yielded the second of two well-formed events
\* of its side and channel and not the first, which arrived before its
\* open call.
C14_Witness ==
    \E g \in Gens :
        /\ gen[g].end = "abandoned" /\ gen[g].calls = Lifecycle(gen[g])
        /\ Len(events) = 2
        /\ Matches(gen[g], events[1]) /\ Len(events[1]) = 5
        /\ Matches(gen[g], events[2]) /\ Len(events[2]) = 5
        /\ gen[g].out = <<ModemMessage(Rest(events[2]))>>

\* How many of the first n requests of a log are close requests, of any
\* channel.
RECURSIVE Closes(_, _)
Closes(calls, n) ==
    IF n = 0 THEN 0
    ELSE (IF calls[n].args[2] = <<"bytes", "close">> THEN 1 ELSE 0)
         + Closes(calls, n - 1)

\* The close requests issued by generators 1..n of generator table gs.
RECURSIVE TotalCloseCalls(_, _)
TotalCloseCalls(gs, n) ==
    IF n = 0 THEN 0
    ELSE Closes(gs[n].calls, Len(gs[n].calls)) + TotalCloseCalls(gs, n - 1)

\* The generators among 1..n of table gs whose open call returned.
RECURSIVE SuccessfulOpens(_, _)
SuccessfulOpens(gs, n) ==
    IF n = 0 THEN 0
    ELSE (IF Reserved(gs[n]) THEN 1 ELSE 0) + SuccessfulOpens(gs, n - 1)

\* The generator's reservation failed: busy, or isOpen or open raised.
Failed(r) == r.end \in {"busy", "transport"}

\* C16: a generator whose reservation failed (busy, or isOpen or open
\* raised) has issued no close request and yielded nothing, and the step in
\* which it failed left the host's channel table and the other generators
\* as they were; a generator that has issued close has issued one, after
\* its open call returned; and the close requests of all generators are at
\* most as many as the open calls that returned.
C16_CloseOnlyAfterOwnOpen ==
    [][gen' # gen =>
       /\ \A g \in Gens :
             gen'[g] # gen[g] =>
                /\ Failed(gen'[g]) =>
                      /\ Closes(gen'[g].calls, Len(gen'[g].calls)) = 0
                      /\ gen'[g].out = <<>>
                      /\ gen'[g].pc = "done"
                      /\ chanOpen' = chanOpen
                      /\ \A h \in Gens : h # g => gen'[h] = gen[h]
                /\ Closes(gen'[g].calls, Len(gen'[g].calls)) > 0 =>
                      /\ Reserved(gen'[g])
                      /\ Closes(gen'[g].calls, Len(gen'[g].calls)) = 1
                      /\ gen'[g].calls[2].args[2] = <<"bytes", "open">>
       /\ TotalCloseCalls(gen', Cardinality(Gens))
             <= SuccessfulOpens(gen', Cardinality(Gens))]_vars

\* A second subscription failed busy on the channel of one that has
\* yielded a message; the first is still active, its channel still open.
C16_Witness ==
    \E g, h \in Gens :
        /\ g # h /\ SameChannel(gen[g], gen[h])
        /\ gen[g].end = "busy" /\ gen[g].calls = SubSeq(Lifecycle(gen[g]), 1, 1)
        /\ gen[h].pc = "yielded" /\ gen[h].out # <<>>
        /\ HostIsOpen(chanOpen, GenSide(gen[h]), gen[h].channel)
        /\ TotalCloseCalls(gen, Cardinality(Gens)) = 0

\* The generator has not run any of receive's body.
NeverRun(r) == r.pc \in {"unused", "created"} \/ r.end = "discarded"

\* C17: a generator that receive() has returned and that has not been
\* asked for a message, or that was dropped without being asked, has
\* issued no request and yielded nothing; and as long as no generator's
\* open call has returned, no channel is open on the host.
C17_LazyCreation ==
    /\ \A g \in Gens :
          NeverRun(gen[g]) =>
             /\ gen[g].calls = <<>>
             /\ gen[g].out = <<>>
             /\ gen[g].tap = 0
    /\ (\A g \in Gens : ~Reserved(gen[g])) =>
          \A k \in DOMAIN chanOpen : ~chanOpen[k]

\* With events in the stream, one generator was dropped and another is
\* still waiting to be asked for its first message; no channel is open.
C17_Witness ==
    \E g, h \in Gens :
        /\ gen[g].end = "discarded" /\ gen[g].calls = <<>>
        /\ gen[h].pc = "created" /\ gen[h].calls = <<>>
        /\ Len(events) = MaxEvents
        /\ \A k \in DOMAIN chanOpen : ~chanOpen[k]

\* The request is isOpen, open or close of r's channel on r's side.
OwnChannelCall(r, q) ==
    /\ q.code = <<"return ", "peripheral.", "call", "(...)">>
    /\ Len(q.args) = 3
    /\ q.args[1] = <<"bytes", GenSide(r)>>
    /\ q.args[2] \in {<<"bytes", "isOpen">>, <<"bytes", "open">>, <<"bytes", "close">>}
    /\ q.args[3] = <<"int", r.channel>>

\* C18: every request a generator issues is isOpen, open or close of its
\* own channel on its own side, and a step of a generator leaves the
\* open/closed status of every other (side, channel) as it was; so the end
\* of one subscription leaves the channel of another open.
C18_OnlyOwnChannel ==
    [][\A g \in Gens :
          gen'[g] # gen[g] =>
             /\ gen'[g].calls # gen[g].calls =>
                   \A i \in 1..Len(gen'[g].calls) :
                      OwnChannelCall(gen'[g], gen'[g].calls[i])
             /\ \A k \in DOMAIN chanOpen :
                   k # <<GenSide(gen'[g]), gen'[g].channel>> =>
                      chanOpen'[k] = chanOpen[k]
             /\ \A h \in Gens :
                   (h # g /\ Active(gen[h]) /\ ~SameChannel(gen[g], gen[h])) =>
                      /\ Active(gen'[h])
                      /\ HostIsOpen(chanOpen', GenSide(gen[h]), gen[h].channel)
                            = HostIsOpen(chanOpen, GenSide(gen[h]), gen[h].channel)]_vars

\* Two subscriptions on the two channels of one proxy were active
\* together; the one that yielded the later event has been abandoned and
\* its channel is closed, the other is still active with its channel open.
C18_Witness ==
    \E g, h \in Gens :
        /\ gen[g].self = gen[h].self /\ gen[g].channel # gen[h].channel
        /\ Len(events) = 2 /\ Len(events[1]) = 5 /\ Len(events[2]) = 5
        /\ Active(gen[h]) /\ gen[h].out = <<ModemMessage(Rest(events[1]))>>
        /\ gen[g].end = "abandoned"
        /\ gen[g].out = <<ModemMessage(Rest(events[2]))>>
        /\ HostIsOpen(chanOpen, GenSide(gen[h]), gen[h].channel)
        /\ ~HostIsOpen(chanOpen, GenSide(gen[g]), gen[g].channel)

(* ------------------------------------------------------------------ *)
(* Further properties of wrapRemote and the proxies                   *)
(* ------------------------------------------------------------------ *)
\* C12: wrapRemote issues exactly one request, getTypeRemote of the
\* far-side name on the bridge's own handle, and never isWireless; every
\* reported kind, 'modem' included, is looked up in TYPE_MAP: the result has
\* the registered class, and a kind without one raises KeyError.
C12_RemoteKindViaRegistry ==
    last.op = "wrapRemote" =>
        /\ last.calls =
              << [code |-> CodeOn(last.self._lua_method_expr),
                  args |-> last.self._prepend_params
                              \o << <<"bytes", "getTypeRemote">>,
                                    <<"bytes", last.arg[2]>> >>] >>
        /\ \A i \in 1..Len(last.calls) : \A j \in 1..Len(last.calls[i].args) :
              last.calls[i].args[j] # <<"bytes", "isWireless">>
        /\ last.ptype # None =>
              /\ last.lookups = <<last.ptype[2]>>
              /\ last.ptype[2] \in DOMAIN TYPE_MAP =>
                    last.ret.cls = TYPE_MAP[last.ptype[2]]
              /\ last.ptype[2] \notin DOMAIN TYPE_MAP =>
                    last.ret = KeyError(last.ptype[2])

\* A far-side device reported 'modem' with the registry as imported, which
\* has no class for 'modem': the lookup raised KeyError.
C12_Witness ==
    /\ last.op = "wrapRemote" /\ last.ptype = Str("modem")
    /\ regLog = <<>>
    /\ last.lookups = <<"modem">>
    /\ last.ret = KeyError("modem")

====
